---- MODULE Spec2Model ----
(***************************************************************************)
(* crypto/internal/boring/sha.go: the SHA-1 / SHA-2 streaming adapters     *)
(* (Reset, Write, Sum) and the state codec (MarshalBinary,                 *)
(* UnmarshalBinary) over the native hash contexts.                         *)
(*                                                                         *)
(* Representation.  A byte is a number in 0..255.  A Go []byte or string   *)
(* is a sequence of bytes.  A uint32 (uint64) is a sequence of 4 (8) bytes,*)
(* least significant byte first, so that every shift, or, truncation and   *)
(* widening of the source is computed at its own width.                    *)
(***************************************************************************)
EXTENDS Integers, Sequences, FiniteSets

(***************************************************************************)
(* Fixed-width integer arithmetic of the Go source.                        *)
(***************************************************************************)

\* 2^k for 0 <= k <= 8
Pow2(k) == << 1, 2, 4, 8, 16, 32, 64, 128, 256 >>[k + 1]

\* digit j of word s, zero outside the word
Dig(s, j) == IF j >= 1 /\ j <= Len(s) THEN s[j] ELSE 0

\* the function f on 1..n as a sequence
Tup(f, n) == SubSeq(f, 1, n)

\* for each n up to the largest snapshot size, n zero bytes
ZeroTable == [n \in 0..(4 + 8 * 8 + 128 + 8) |-> Tup([i \in 1..n |-> 0], n)]

\* the zero value of an n-byte integer, and n zero bytes of a slice
Zeros(n) == ZeroTable[n]

\* s >> k at the width of s
Shr(s, k) ==
  LET q == k \div 8
      r == k % 8
      t == IF q >= Len(s) THEN Zeros(Len(s)) ELSE SubSeq(s, q + 1, Len(s)) \o Zeros(q)
  IN  IF r = 0 THEN t
      ELSE Tup([i \in 1..Len(s) |->
                  (t[i] \div Pow2(r)) + ((Dig(t, i + 1) % Pow2(r)) * Pow2(8 - r))], Len(s))

\* s << k at the width of s (bits shifted past the top are lost)
Shl(s, k) ==
  LET q == k \div 8
      r == k % 8
      t == IF q >= Len(s) THEN Zeros(Len(s)) ELSE Zeros(q) \o SubSeq(s, 1, Len(s) - q)
  IN  IF r = 0 THEN t
      ELSE Tup([i \in 1..Len(s) |->
                  ((t[i] * Pow2(r)) % 256) + (Dig(t, i - 1) \div Pow2(8 - r))], Len(s))

\* a | b on two bytes, bit by bit
RECURSIVE OrBits(_, _, _)
OrBits(a, b, n) ==
  IF n = 0 THEN 0
  ELSE (IF a % 2 = 1 \/ b % 2 = 1 THEN 1 ELSE 0) + 2 * OrBits(a \div 2, b \div 2, n - 1)

OrByte(a, b) == IF a = 0 THEN b ELSE IF b = 0 THEN a ELSE OrBits(a, b, 8)

\* a | b on two integers of the same width
Or(a, b) == Tup([i \in 1..Len(a) |-> OrByte(a[i], b[i])], Len(a))

\* the conversions uint64(x) of a uint32 or a byte, uint32(x) of a uint64 or a
\* byte, and byte(x)
U64(s) == Tup([i \in 1..8 |-> Dig(s, i)], 8)
U32(s) == Tup([i \in 1..4 |-> Dig(s, i)], 4)
U64b(c) == << c, 0, 0, 0, 0, 0, 0, 0 >>
U32b(c) == << c, 0, 0, 0 >>
Byte(s) == s[1]

\* b[k:] of a slice
Drop(b, k) == SubSeq(b, k + 1, Len(b))

\* b[:k] of a slice
Take(b, k) == SubSeq(b, 1, k)

(***************************************************************************)
(* Byte-order helpers (sha.go, lines 612-655).                             *)
(***************************************************************************)

\* putUint64 storing its eight bytes least significant first
putUint64_LittleEndian(s) ==
  << Byte(s), Byte(Shr(s, 8)), Byte(Shr(s, 16)), Byte(Shr(s, 24)),
     Byte(Shr(s, 32)), Byte(Shr(s, 40)), Byte(Shr(s, 48)), Byte(Shr(s, 56)) >>

putUint64(s) ==
  << Byte(Shr(s, 56)), Byte(Shr(s, 48)), Byte(Shr(s, 40)), Byte(Shr(s, 32)),
     Byte(Shr(s, 24)), Byte(Shr(s, 16)), Byte(Shr(s, 8)), Byte(s) >>

putUint32(s) ==
  << Byte(Shr(s, 24)), Byte(Shr(s, 16)), Byte(Shr(s, 8)), Byte(s) >>

appendUint64(b, x) == b \o putUint64(x)

appendUint32(b, x) == b \o putUint32(x)

\* consumeUint64 reading its eight bytes least significant first
consumeUint64_LittleEndian(b) ==
  [rest |-> Drop(b, 8),
   x |-> Or(Or(Or(Or(Or(Or(Or(U64b(b[1]), Shl(U64b(b[2]), 8)), Shl(U64b(b[3]), 16)),
                         Shl(U64b(b[4]), 24)), Shl(U64b(b[5]), 32)),
                   Shl(U64b(b[6]), 40)), Shl(U64b(b[7]), 48)), Shl(U64b(b[8]), 56))]

\* the pair (b[8:], x) is returned as a record
consumeUint64(b) ==
  [rest |-> Drop(b, 8),
   x |-> Or(Or(Or(Or(Or(Or(Or(U64b(b[8]), Shl(U64b(b[7]), 8)), Shl(U64b(b[6]), 16)),
                         Shl(U64b(b[5]), 24)), Shl(U64b(b[4]), 32)),
                   Shl(U64b(b[3]), 40)), Shl(U64b(b[2]), 48)), Shl(U64b(b[1]), 56))]

consumeUint32(b) ==
  [rest |-> Drop(b, 4),
   x |-> Or(Or(Or(U32b(b[4]), Shl(U32b(b[3]), 8)), Shl(U32b(b[2]), 16)),
            Shl(U32b(b[1]), 24))]


(***************************************************************************)
(* Variants, constants and context records.                                *)
(***************************************************************************)

Variants == {"SHA1", "SHA224", "SHA256", "SHA384", "SHA512"}

\* "sha\x01" ... "sha\x07" as bytes
sha1Magic == << 115, 104, 97, 1 >>
magic224 == << 115, 104, 97, 2 >>
magic256 == << 115, 104, 97, 3 >>
magic384 == << 115, 104, 97, 4 >>
magic512_224 == << 115, 104, 97, 5 >>
magic512_256 == << 115, 104, 97, 6 >>
magic512 == << 115, 104, 97, 7 >>

sha1MarshaledSize == Len(sha1Magic) + 5 * 4 + 64 + 8
marshaledSize256 == Len(magic256) + 8 * 4 + 64 + 8
marshaledSize512 == Len(magic512) + 8 * 8 + 128 + 8

Size(v) ==
  CASE v = "SHA1" -> 20
    [] v = "SHA224" -> 224 \div 8
    [] v = "SHA256" -> 256 \div 8
    [] v = "SHA384" -> 384 \div 8
    [] v = "SHA512" -> 512 \div 8

BlockSize(v) ==
  CASE v = "SHA1" -> 64
    [] v = "SHA224" -> 64
    [] v = "SHA256" -> 64
    [] v = "SHA384" -> 128
    [] v = "SHA512" -> 128

\* the nil error
NoError == ""

\* make([]byte, n, cap): n zero bytes; the spare capacity is zero as well
MakeBytes(n) == Zeros(n)

\* b[:n] for n beyond len(b), of a slice whose spare capacity has never been
\* written: the bytes that become visible are the zero bytes make left there
Reslice(b, n) == IF n <= Len(b) THEN Take(b, n) ELSE b \o Zeros(n - Len(b))

\* the count copy(dst, src) copies
CopyLen(dst, src) == IF Len(dst) < Len(src) THEN Len(dst) ELSE Len(src)

\* uint32 x % m for a power of two m <= 256, as a number
ModU32(s, m) == s[1] % m

(***************************************************************************)
(* State codec (sha.go, lines 170-210, 302-399, 505-610).  d is the        *)
(* context viewed as sha1Ctx / sha256Ctx / sha512Ctx:                      *)
(*   [h : words, nl, nh : words, x : bytes, nx : number].                  *)
(***************************************************************************)

\* sha1Hash.MarshalBinary without the reslice that pads the buffer region
sha1Hash_MarshalBinary_NoReslice(d) ==
  LET b0 == MakeBytes(0)
      b1 == b0 \o sha1Magic
      b2 == appendUint32(b1, d.h[1])
      b3 == appendUint32(b2, d.h[2])
      b4 == appendUint32(b3, d.h[3])
      b5 == appendUint32(b4, d.h[4])
      b6 == appendUint32(b5, d.h[5])
      b7 == b6 \o Take(d.x, d.nx)
      n == Len(b7) + Len(d.x) - d.nx
      b8 == b7
      b9 == appendUint64(b8, Or(Shr(U64(d.nl), 3), Shl(U64(d.nh), 29)))
  IN  IF d.nx > Len(d.x) \/ n > sha1MarshaledSize
      THEN [b |-> <<>>, err |-> NoError, panic |-> TRUE]
      ELSE [b |-> b9, err |-> NoError, panic |-> FALSE]

\* sha1Hash.MarshalBinary packing the high counter word at bit 32
sha1Hash_MarshalBinary_Shift32(d) ==
  LET b0 == MakeBytes(0)
      b1 == b0 \o sha1Magic
      b2 == appendUint32(b1, d.h[1])
      b3 == appendUint32(b2, d.h[2])
      b4 == appendUint32(b3, d.h[3])
      b5 == appendUint32(b4, d.h[4])
      b6 == appendUint32(b5, d.h[5])
      b7 == b6 \o Take(d.x, d.nx)
      n == Len(b7) + Len(d.x) - d.nx
      b8 == Reslice(b7, n)
      b9 == appendUint64(b8, Or(Shr(U64(d.nl), 3), Shl(U64(d.nh), 32)))
  IN  IF d.nx > Len(d.x) \/ n > sha1MarshaledSize
      THEN [b |-> <<>>, err |-> NoError, panic |-> TRUE]
      ELSE [b |-> b9, err |-> NoError, panic |-> FALSE]

sha1Hash_MarshalBinary(d) ==
  LET b0 == MakeBytes(0)
      b1 == b0 \o sha1Magic
      b2 == appendUint32(b1, d.h[1])
      b3 == appendUint32(b2, d.h[2])
      b4 == appendUint32(b3, d.h[3])
      b5 == appendUint32(b4, d.h[4])
      b6 == appendUint32(b5, d.h[5])
      b7 == b6 \o Take(d.x, d.nx)
      n == Len(b7) + Len(d.x) - d.nx
      b8 == Reslice(b7, n)
      b9 == appendUint64(b8, Or(Shr(U64(d.nl), 3), Shl(U64(d.nh), 29)))
  IN  IF d.nx > Len(d.x) \/ n > sha1MarshaledSize
      THEN [b |-> <<>>, err |-> NoError, panic |-> TRUE]
      ELSE [b |-> b9, err |-> NoError, panic |-> FALSE]

\* sha1Hash.UnmarshalBinary testing the length before the tag
sha1Hash_UnmarshalBinary_SizeFirst(d, b) ==
  IF Len(b) # sha1MarshaledSize
  THEN [err |-> "crypto/sha1: invalid hash state size", d |-> d]
  ELSE IF Len(b) < Len(sha1Magic) \/ Take(b, Len(sha1Magic)) # sha1Magic
  THEN [err |-> "crypto/sha1: invalid hash state identifier", d |-> d]
  ELSE
  LET
      r0 == [rest |-> Drop(b, Len(sha1Magic))]
      r1 == consumeUint32(r0.rest)
      r2 == consumeUint32(r1.rest)
      r3 == consumeUint32(r2.rest)
      r4 == consumeUint32(r3.rest)
      r5 == consumeUint32(r4.rest)
      c == CopyLen(d.x, r5.rest)
      x1 == Take(r5.rest, c) \o Drop(d.x, c)
      rn == consumeUint64(Drop(r5.rest, c))
  IN  [err |-> NoError,
       d |-> [d EXCEPT !.h = << r1.x, r2.x, r3.x, r4.x, r5.x >>,
                       !.x = x1,
                       !.nl = U32(Shl(rn.x, 3)),
                       !.nh = U32(Shr(rn.x, 29)),
                       !.nx = ModU32(U32(rn.x), 64)]]

\* sha1Hash.UnmarshalBinary storing the byte count in nl, not the bit count
sha1Hash_UnmarshalBinary_NoShift(d, b) ==
  IF Len(b) < Len(sha1Magic) \/ Take(b, Len(sha1Magic)) # sha1Magic
  THEN [err |-> "crypto/sha1: invalid hash state identifier", d |-> d]
  ELSE IF Len(b) # sha1MarshaledSize
  THEN [err |-> "crypto/sha1: invalid hash state size", d |-> d]
  ELSE
  LET
      r0 == [rest |-> Drop(b, Len(sha1Magic))]
      r1 == consumeUint32(r0.rest)
      r2 == consumeUint32(r1.rest)
      r3 == consumeUint32(r2.rest)
      r4 == consumeUint32(r3.rest)
      r5 == consumeUint32(r4.rest)
      c == CopyLen(d.x, r5.rest)
      x1 == Take(r5.rest, c) \o Drop(d.x, c)
      rn == consumeUint64(Drop(r5.rest, c))
  IN  [err |-> NoError,
       d |-> [d EXCEPT !.h = << r1.x, r2.x, r3.x, r4.x, r5.x >>,
                       !.x = x1,
                       !.nl = U32(rn.x),
                       !.nh = U32(Shr(rn.x, 29)),
                       !.nx = ModU32(U32(rn.x), 64)]]

sha1Hash_UnmarshalBinary(d, b) ==
  IF Len(b) < Len(sha1Magic) \/ Take(b, Len(sha1Magic)) # sha1Magic
  THEN [err |-> "crypto/sha1: invalid hash state identifier", d |-> d]
  ELSE IF Len(b) # sha1MarshaledSize
  THEN [err |-> "crypto/sha1: invalid hash state size", d |-> d]
  ELSE
  LET
      r0 == [rest |-> Drop(b, Len(sha1Magic))]
      r1 == consumeUint32(r0.rest)
      r2 == consumeUint32(r1.rest)
      r3 == consumeUint32(r2.rest)
      r4 == consumeUint32(r3.rest)
      r5 == consumeUint32(r4.rest)
      c == CopyLen(d.x, r5.rest)
      x1 == Take(r5.rest, c) \o Drop(d.x, c)
      rn == consumeUint64(Drop(r5.rest, c))
  IN  [err |-> NoError,
       d |-> [d EXCEPT !.h = << r1.x, r2.x, r3.x, r4.x, r5.x >>,
                       !.x = x1,
                       !.nl = U32(Shl(rn.x, 3)),
                       !.nh = U32(Shr(rn.x, 29)),
                       !.nx = ModU32(U32(rn.x), 64)]]

\* sha224Hash.MarshalBinary writing the tag of SHA-256
sha224Hash_MarshalBinary_Magic256(d) ==
  LET b0 == MakeBytes(0)
      b1 == b0 \o magic256
      b2 == appendUint32(b1, d.h[1])
      b3 == appendUint32(b2, d.h[2])
      b4 == appendUint32(b3, d.h[3])
      b5 == appendUint32(b4, d.h[4])
      b6 == appendUint32(b5, d.h[5])
      b7 == appendUint32(b6, d.h[6])
      b8 == appendUint32(b7, d.h[7])
      b9 == appendUint32(b8, d.h[8])
      b10 == b9 \o Take(d.x, d.nx)
      n == Len(b10) + Len(d.x) - d.nx
      b11 == Reslice(b10, n)
      b12 == appendUint64(b11, Or(Shr(U64(d.nl), 3), Shl(U64(d.nh), 29)))
  IN  IF d.nx > Len(d.x) \/ n > marshaledSize256
      THEN [b |-> <<>>, err |-> NoError, panic |-> TRUE]
      ELSE [b |-> b12, err |-> NoError, panic |-> FALSE]

sha224Hash_MarshalBinary(d) ==
  LET b0 == MakeBytes(0)
      b1 == b0 \o magic224
      b2 == appendUint32(b1, d.h[1])
      b3 == appendUint32(b2, d.h[2])
      b4 == appendUint32(b3, d.h[3])
      b5 == appendUint32(b4, d.h[4])
      b6 == appendUint32(b5, d.h[5])
      b7 == appendUint32(b6, d.h[6])
      b8 == appendUint32(b7, d.h[7])
      b9 == appendUint32(b8, d.h[8])
      b10 == b9 \o Take(d.x, d.nx)
      n == Len(b10) + Len(d.x) - d.nx
      b11 == Reslice(b10, n)
      b12 == appendUint64(b11, Or(Shr(U64(d.nl), 3), Shl(U64(d.nh), 29)))
  IN  IF d.nx > Len(d.x) \/ n > marshaledSize256
      THEN [b |-> <<>>, err |-> NoError, panic |-> TRUE]
      ELSE [b |-> b12, err |-> NoError, panic |-> FALSE]

\* sha256Hash.MarshalBinary storing the bit count: nl is not shifted down and
\* nh is packed above it
sha256Hash_MarshalBinary_BitCount(d) ==
  LET b0 == MakeBytes(0)
      b1 == b0 \o magic256
      b2 == appendUint32(b1, d.h[1])
      b3 == appendUint32(b2, d.h[2])
      b4 == appendUint32(b3, d.h[3])
      b5 == appendUint32(b4, d.h[4])
      b6 == appendUint32(b5, d.h[5])
      b7 == appendUint32(b6, d.h[6])
      b8 == appendUint32(b7, d.h[7])
      b9 == appendUint32(b8, d.h[8])
      b10 == b9 \o Take(d.x, d.nx)
      n == Len(b10) + Len(d.x) - d.nx
      b11 == Reslice(b10, n)
      b12 == appendUint64(b11, Or(U64(d.nl), Shl(U64(d.nh), 32)))
  IN  IF d.nx > Len(d.x) \/ n > marshaledSize256
      THEN [b |-> <<>>, err |-> NoError, panic |-> TRUE]
      ELSE [b |-> b12, err |-> NoError, panic |-> FALSE]

sha256Hash_MarshalBinary(d) ==
  LET b0 == MakeBytes(0)
      b1 == b0 \o magic256
      b2 == appendUint32(b1, d.h[1])
      b3 == appendUint32(b2, d.h[2])
      b4 == appendUint32(b3, d.h[3])
      b5 == appendUint32(b4, d.h[4])
      b6 == appendUint32(b5, d.h[5])
      b7 == appendUint32(b6, d.h[6])
      b8 == appendUint32(b7, d.h[7])
      b9 == appendUint32(b8, d.h[8])
      b10 == b9 \o Take(d.x, d.nx)
      n == Len(b10) + Len(d.x) - d.nx
      b11 == Reslice(b10, n)
      b12 == appendUint64(b11, Or(Shr(U64(d.nl), 3), Shl(U64(d.nh), 29)))
  IN  IF d.nx > Len(d.x) \/ n > marshaledSize256
      THEN [b |-> <<>>, err |-> NoError, panic |-> TRUE]
      ELSE [b |-> b12, err |-> NoError, panic |-> FALSE]

\* sha224Hash.UnmarshalBinary reducing the count modulo the block size of
\* SHA-512
sha224Hash_UnmarshalBinary_Mod128(d, b) ==
  IF Len(b) < Len(magic224) \/ Take(b, Len(magic224)) # magic224
  THEN [err |-> "crypto/sha256: invalid hash state identifier", d |-> d]
  ELSE IF Len(b) # marshaledSize256
  THEN [err |-> "crypto/sha256: invalid hash state size", d |-> d]
  ELSE
  LET
      r0 == [rest |-> Drop(b, Len(magic224))]
      r1 == consumeUint32(r0.rest)
      r2 == consumeUint32(r1.rest)
      r3 == consumeUint32(r2.rest)
      r4 == consumeUint32(r3.rest)
      r5 == consumeUint32(r4.rest)
      r6 == consumeUint32(r5.rest)
      r7 == consumeUint32(r6.rest)
      r8 == consumeUint32(r7.rest)
      c == CopyLen(d.x, r8.rest)
      x1 == Take(r8.rest, c) \o Drop(d.x, c)
      rn == consumeUint64(Drop(r8.rest, c))
  IN  [err |-> NoError,
       d |-> [d EXCEPT !.h = << r1.x, r2.x, r3.x, r4.x, r5.x, r6.x, r7.x, r8.x >>,
                       !.x = x1,
                       !.nl = U32(Shl(rn.x, 3)),
                       !.nh = U32(Shr(rn.x, 29)),
                       !.nx = ModU32(U32(rn.x), 128)]]

sha224Hash_UnmarshalBinary(d, b) ==
  IF Len(b) < Len(magic224) \/ Take(b, Len(magic224)) # magic224
  THEN [err |-> "crypto/sha256: invalid hash state identifier", d |-> d]
  ELSE IF Len(b) # marshaledSize256
  THEN [err |-> "crypto/sha256: invalid hash state size", d |-> d]
  ELSE
  LET
      r0 == [rest |-> Drop(b, Len(magic224))]
      r1 == consumeUint32(r0.rest)
      r2 == consumeUint32(r1.rest)
      r3 == consumeUint32(r2.rest)
      r4 == consumeUint32(r3.rest)
      r5 == consumeUint32(r4.rest)
      r6 == consumeUint32(r5.rest)
      r7 == consumeUint32(r6.rest)
      r8 == consumeUint32(r7.rest)
      c == CopyLen(d.x, r8.rest)
      x1 == Take(r8.rest, c) \o Drop(d.x, c)
      rn == consumeUint64(Drop(r8.rest, c))
  IN  [err |-> NoError,
       d |-> [d EXCEPT !.h = << r1.x, r2.x, r3.x, r4.x, r5.x, r6.x, r7.x, r8.x >>,
                       !.x = x1,
                       !.nl = U32(Shl(rn.x, 3)),
                       !.nh = U32(Shr(rn.x, 29)),
                       !.nx = ModU32(U32(rn.x), 64)]]

\* sha256Hash.UnmarshalBinary without the assignment to d.nx
sha256Hash_UnmarshalBinary_KeepNx(d, b) ==
  IF Len(b) < Len(magic256) \/ Take(b, Len(magic256)) # magic256
  THEN [err |-> "crypto/sha256: invalid hash state identifier", d |-> d]
  ELSE IF Len(b) # marshaledSize256
  THEN [err |-> "crypto/sha256: invalid hash state size", d |-> d]
  ELSE
  LET
      r0 == [rest |-> Drop(b, Len(magic256))]
      r1 == consumeUint32(r0.rest)
      r2 == consumeUint32(r1.rest)
      r3 == consumeUint32(r2.rest)
      r4 == consumeUint32(r3.rest)
      r5 == consumeUint32(r4.rest)
      r6 == consumeUint32(r5.rest)
      r7 == consumeUint32(r6.rest)
      r8 == consumeUint32(r7.rest)
      c == CopyLen(d.x, r8.rest)
      x1 == Take(r8.rest, c) \o Drop(d.x, c)
      rn == consumeUint64(Drop(r8.rest, c))
  IN  [err |-> NoError,
       d |-> [d EXCEPT !.h = << r1.x, r2.x, r3.x, r4.x, r5.x, r6.x, r7.x, r8.x >>,
                       !.x = x1,
                       !.nl = U32(Shl(rn.x, 3)),
                       !.nh = U32(Shr(rn.x, 29))]]

sha256Hash_UnmarshalBinary(d, b) ==
  IF Len(b) < Len(magic256) \/ Take(b, Len(magic256)) # magic256
  THEN [err |-> "crypto/sha256: invalid hash state identifier", d |-> d]
  ELSE IF Len(b) # marshaledSize256
  THEN [err |-> "crypto/sha256: invalid hash state size", d |-> d]
  ELSE
  LET
      r0 == [rest |-> Drop(b, Len(magic256))]
      r1 == consumeUint32(r0.rest)
      r2 == consumeUint32(r1.rest)
      r3 == consumeUint32(r2.rest)
      r4 == consumeUint32(r3.rest)
      r5 == consumeUint32(r4.rest)
      r6 == consumeUint32(r5.rest)
      r7 == consumeUint32(r6.rest)
      r8 == consumeUint32(r7.rest)
      c == CopyLen(d.x, r8.rest)
      x1 == Take(r8.rest, c) \o Drop(d.x, c)
      rn == consumeUint64(Drop(r8.rest, c))
  IN  [err |-> NoError,
       d |-> [d EXCEPT !.h = << r1.x, r2.x, r3.x, r4.x, r5.x, r6.x, r7.x, r8.x >>,
                       !.x = x1,
                       !.nl = U32(Shl(rn.x, 3)),
                       !.nh = U32(Shr(rn.x, 29)),
                       !.nx = ModU32(U32(rn.x), 64)]]

sha384Hash_MarshalBinary(d) ==
  LET b0 == MakeBytes(0)
      b1 == b0 \o magic384
      b2 == appendUint64(b1, d.h[1])
      b3 == appendUint64(b2, d.h[2])
      b4 == appendUint64(b3, d.h[3])
      b5 == appendUint64(b4, d.h[4])
      b6 == appendUint64(b5, d.h[5])
      b7 == appendUint64(b6, d.h[6])
      b8 == appendUint64(b7, d.h[7])
      b9 == appendUint64(b8, d.h[8])
      b10 == b9 \o Take(d.x, d.nx)
      n == Len(b10) + Len(d.x) - d.nx
      b11 == Reslice(b10, n)
      b12 == appendUint64(b11, Or(Shr(d.nl, 3), Shl(d.nh, 61)))
  IN  IF d.nx > Len(d.x) \/ n > marshaledSize512
      THEN [b |-> <<>>, err |-> NoError, panic |-> TRUE]
      ELSE [b |-> b12, err |-> NoError, panic |-> FALSE]

\* sha512Hash.MarshalBinary appending all of d.x, not d.x[:d.nx]
sha512Hash_MarshalBinary_WholeBuffer(d) ==
  LET b0 == MakeBytes(0)
      b1 == b0 \o magic512
      b2 == appendUint64(b1, d.h[1])
      b3 == appendUint64(b2, d.h[2])
      b4 == appendUint64(b3, d.h[3])
      b5 == appendUint64(b4, d.h[4])
      b6 == appendUint64(b5, d.h[5])
      b7 == appendUint64(b6, d.h[6])
      b8 == appendUint64(b7, d.h[7])
      b9 == appendUint64(b8, d.h[8])
      b10 == b9 \o d.x
      n == Len(b10)
      b11 == Reslice(b10, n)
      b12 == appendUint64(b11, Or(Shr(d.nl, 3), Shl(d.nh, 61)))
  IN  IF d.nx > Len(d.x) \/ n > marshaledSize512
      THEN [b |-> <<>>, err |-> NoError, panic |-> TRUE]
      ELSE [b |-> b12, err |-> NoError, panic |-> FALSE]

sha512Hash_MarshalBinary(d) ==
  LET b0 == MakeBytes(0)
      b1 == b0 \o magic512
      b2 == appendUint64(b1, d.h[1])
      b3 == appendUint64(b2, d.h[2])
      b4 == appendUint64(b3, d.h[3])
      b5 == appendUint64(b4, d.h[4])
      b6 == appendUint64(b5, d.h[5])
      b7 == appendUint64(b6, d.h[6])
      b8 == appendUint64(b7, d.h[7])
      b9 == appendUint64(b8, d.h[8])
      b10 == b9 \o Take(d.x, d.nx)
      n == Len(b10) + Len(d.x) - d.nx
      b11 == Reslice(b10, n)
      b12 == appendUint64(b11, Or(Shr(d.nl, 3), Shl(d.nh, 61)))
  IN  IF d.nx > Len(d.x) \/ n > marshaledSize512
      THEN [b |-> <<>>, err |-> NoError, panic |-> TRUE]
      ELSE [b |-> b12, err |-> NoError, panic |-> FALSE]

\* sha384Hash.UnmarshalBinary taking the high counter word from bit 29, as the
\* 32-bit-word types do
sha384Hash_UnmarshalBinary_Shift29(d, b) ==
  IF Len(b) < Len(magic512)
  THEN [err |-> "crypto/sha512: invalid hash state identifier", d |-> d]
  ELSE IF Take(b, Len(magic384)) # magic384
  THEN [err |-> "crypto/sha512: invalid hash state identifier", d |-> d]
  ELSE IF Len(b) # marshaledSize512
  THEN [err |-> "crypto/sha512: invalid hash state size", d |-> d]
  ELSE
  LET
      r0 == [rest |-> Drop(b, Len(magic512))]
      r1 == consumeUint64(r0.rest)
      r2 == consumeUint64(r1.rest)
      r3 == consumeUint64(r2.rest)
      r4 == consumeUint64(r3.rest)
      r5 == consumeUint64(r4.rest)
      r6 == consumeUint64(r5.rest)
      r7 == consumeUint64(r6.rest)
      r8 == consumeUint64(r7.rest)
      c == CopyLen(d.x, r8.rest)
      x1 == Take(r8.rest, c) \o Drop(d.x, c)
      rn == consumeUint64(Drop(r8.rest, c))
  IN  [err |-> NoError,
       d |-> [d EXCEPT !.h = << r1.x, r2.x, r3.x, r4.x, r5.x, r6.x, r7.x, r8.x >>,
                       !.x = x1,
                       !.nl = Shl(rn.x, 3),
                       !.nh = Shr(rn.x, 29),
                       !.nx = ModU32(U32(rn.x), 128)]]

\* sha384Hash.UnmarshalBinary reducing the count modulo the block size of
\* SHA-256
sha384Hash_UnmarshalBinary_Mod64(d, b) ==
  IF Len(b) < Len(magic512)
  THEN [err |-> "crypto/sha512: invalid hash state identifier", d |-> d]
  ELSE IF Take(b, Len(magic384)) # magic384
  THEN [err |-> "crypto/sha512: invalid hash state identifier", d |-> d]
  ELSE IF Len(b) # marshaledSize512
  THEN [err |-> "crypto/sha512: invalid hash state size", d |-> d]
  ELSE
  LET
      r0 == [rest |-> Drop(b, Len(magic512))]
      r1 == consumeUint64(r0.rest)
      r2 == consumeUint64(r1.rest)
      r3 == consumeUint64(r2.rest)
      r4 == consumeUint64(r3.rest)
      r5 == consumeUint64(r4.rest)
      r6 == consumeUint64(r5.rest)
      r7 == consumeUint64(r6.rest)
      r8 == consumeUint64(r7.rest)
      c == CopyLen(d.x, r8.rest)
      x1 == Take(r8.rest, c) \o Drop(d.x, c)
      rn == consumeUint64(Drop(r8.rest, c))
  IN  [err |-> NoError,
       d |-> [d EXCEPT !.h = << r1.x, r2.x, r3.x, r4.x, r5.x, r6.x, r7.x, r8.x >>,
                       !.x = x1,
                       !.nl = Shl(rn.x, 3),
                       !.nh = Shr(rn.x, 61),
                       !.nx = ModU32(U32(rn.x), 64)]]

sha384Hash_UnmarshalBinary(d, b) ==
  IF Len(b) < Len(magic512)
  THEN [err |-> "crypto/sha512: invalid hash state identifier", d |-> d]
  ELSE IF Take(b, Len(magic384)) # magic384
  THEN [err |-> "crypto/sha512: invalid hash state identifier", d |-> d]
  ELSE IF Len(b) # marshaledSize512
  THEN [err |-> "crypto/sha512: invalid hash state size", d |-> d]
  ELSE
  LET
      r0 == [rest |-> Drop(b, Len(magic512))]
      r1 == consumeUint64(r0.rest)
      r2 == consumeUint64(r1.rest)
      r3 == consumeUint64(r2.rest)
      r4 == consumeUint64(r3.rest)
      r5 == consumeUint64(r4.rest)
      r6 == consumeUint64(r5.rest)
      r7 == consumeUint64(r6.rest)
      r8 == consumeUint64(r7.rest)
      c == CopyLen(d.x, r8.rest)
      x1 == Take(r8.rest, c) \o Drop(d.x, c)
      rn == consumeUint64(Drop(r8.rest, c))
  IN  [err |-> NoError,
       d |-> [d EXCEPT !.h = << r1.x, r2.x, r3.x, r4.x, r5.x, r6.x, r7.x, r8.x >>,
                       !.x = x1,
                       !.nl = Shl(rn.x, 3),
                       !.nh = Shr(rn.x, 61),
                       !.nx = ModU32(U32(rn.x), 128)]]

\* sha512Hash.UnmarshalBinary discarding the pending bytes before it checks the
\* size
sha512Hash_UnmarshalBinary_ClearFirst(d, b) ==
  IF Len(b) < Len(magic512)
  THEN [err |-> "crypto/sha512: invalid hash state identifier", d |-> d]
  ELSE IF Take(b, Len(magic512)) # magic512
  THEN [err |-> "crypto/sha512: invalid hash state identifier", d |-> d]
  ELSE IF Len(b) # marshaledSize512
  THEN [err |-> "crypto/sha512: invalid hash state size", d |-> [d EXCEPT !.nx = 0]]
  ELSE
  LET
      r0 == [rest |-> Drop(b, Len(magic512))]
      r1 == consumeUint64(r0.rest)
      r2 == consumeUint64(r1.rest)
      r3 == consumeUint64(r2.rest)
      r4 == consumeUint64(r3.rest)
      r5 == consumeUint64(r4.rest)
      r6 == consumeUint64(r5.rest)
      r7 == consumeUint64(r6.rest)
      r8 == consumeUint64(r7.rest)
      c == CopyLen(d.x, r8.rest)
      x1 == Take(r8.rest, c) \o Drop(d.x, c)
      rn == consumeUint64(Drop(r8.rest, c))
  IN  [err |-> NoError,
       d |-> [d EXCEPT !.h = << r1.x, r2.x, r3.x, r4.x, r5.x, r6.x, r7.x, r8.x >>,
                       !.x = x1,
                       !.nl = Shl(rn.x, 3),
                       !.nh = Shr(rn.x, 61),
                       !.nx = ModU32(U32(rn.x), 128)]]

sha512Hash_UnmarshalBinary(d, b) ==
  IF Len(b) < Len(magic512)
  THEN [err |-> "crypto/sha512: invalid hash state identifier", d |-> d]
  ELSE IF Take(b, Len(magic512)) # magic512
  THEN [err |-> "crypto/sha512: invalid hash state identifier", d |-> d]
  ELSE IF Len(b) # marshaledSize512
  THEN [err |-> "crypto/sha512: invalid hash state size", d |-> d]
  ELSE
  LET
      r0 == [rest |-> Drop(b, Len(magic512))]
      r1 == consumeUint64(r0.rest)
      r2 == consumeUint64(r1.rest)
      r3 == consumeUint64(r2.rest)
      r4 == consumeUint64(r3.rest)
      r5 == consumeUint64(r4.rest)
      r6 == consumeUint64(r5.rest)
      r7 == consumeUint64(r6.rest)
      r8 == consumeUint64(r7.rest)
      c == CopyLen(d.x, r8.rest)
      x1 == Take(r8.rest, c) \o Drop(d.x, c)
      rn == consumeUint64(Drop(r8.rest, c))
  IN  [err |-> NoError,
       d |-> [d EXCEPT !.h = << r1.x, r2.x, r3.x, r4.x, r5.x, r6.x, r7.x, r8.x >>,
                       !.x = x1,
                       !.nl = Shl(rn.x, 3),
                       !.nh = Shr(rn.x, 61),
                       !.nx = ModU32(U32(rn.x), 128)]]

\* dispatch on the adapter's dynamic type
MarshalBinary(v, d) ==
  CASE v = "SHA1" -> sha1Hash_MarshalBinary(d)
    [] v = "SHA224" -> sha224Hash_MarshalBinary(d)
    [] v = "SHA256" -> sha256Hash_MarshalBinary(d)
    [] v = "SHA384" -> sha384Hash_MarshalBinary(d)
    [] v = "SHA512" -> sha512Hash_MarshalBinary(d)

UnmarshalBinary(v, d, b) ==
  CASE v = "SHA1" -> sha1Hash_UnmarshalBinary(d, b)
    [] v = "SHA224" -> sha224Hash_UnmarshalBinary(d, b)
    [] v = "SHA256" -> sha256Hash_UnmarshalBinary(d, b)
    [] v = "SHA384" -> sha384Hash_UnmarshalBinary(d, b)
    [] v = "SHA512" -> sha512Hash_UnmarshalBinary(d, b)

(***************************************************************************)
(* The primitive library: _goboringcrypto_SHA*_Init / _Update / _Final.    *)
(* Its code is not part of sha.go; it is modelled from its contract: Init  *)
(* sets the initial chaining values and zeroes buffer and counters, Update *)
(* advances the bit counter, buffers the tail and compresses every full    *)
(* block, Final pads, appends the bit count and emits the chaining values. *)
(* The round logic of the compression function is out of scope: Compress   *)
(* is a fixed deterministic mixing of the chaining words with the 16 words *)
(* of one block, sensitive to every byte and to its position.  What Update *)
(* leaves in the block buffer past the pending bytes is the library's own  *)
(* business; ClearsBuffer records it as the library's two update routines  *)
(* behave.                                                                 *)
(***************************************************************************)

\* the integer whose big-endian bytes are bs
BE(bs) == Tup([i \in 1..Len(bs) |-> bs[Len(bs) + 1 - i]], Len(bs))

\* bytes per chaining word
WordBytes(v) == IF v \in {"SHA384", "SHA512"} THEN 8 ELSE 4

\* a small number as a w-byte integer
RECURSIVE FromNat(_, _)
FromNat(n, w) == IF w = 0 THEN <<>> ELSE << n % 256 >> \o FromNat(n \div 256, w - 1)

\* a + b at the width of a (the carry out of the top byte is lost)
RECURSIVE AddFrom(_, _, _, _)
AddFrom(a, b, i, c) ==
  IF i > Len(a) THEN <<>>
  ELSE LET t == a[i] + b[i] + c
       IN  << t % 256 >> \o AddFrom(a, b, i + 1, t \div 256)

Add(a, b) == AddFrom(a, b, 1, 0)

\* a < b on two integers of the same width
RECURSIVE LessFrom(_, _, _)
LessFrom(a, b, i) ==
  IF i = 0 THEN FALSE
  ELSE IF a[i] # b[i] THEN a[i] < b[i]
  ELSE LessFrom(a, b, i - 1)

Less(a, b) == LessFrom(a, b, Len(a))

InitialH(v) ==
  CASE v = "SHA1" ->
    << BE(<< 103, 69, 35, 1 >>),
       BE(<< 239, 205, 171, 137 >>),
       BE(<< 152, 186, 220, 254 >>),
       BE(<< 16, 50, 84, 118 >>),
       BE(<< 195, 210, 225, 240 >>) >>
    [] v = "SHA224" ->
    << BE(<< 193, 5, 158, 216 >>),
       BE(<< 54, 124, 213, 7 >>),
       BE(<< 48, 112, 221, 23 >>),
       BE(<< 247, 14, 89, 57 >>),
       BE(<< 255, 192, 11, 49 >>),
       BE(<< 104, 88, 21, 17 >>),
       BE(<< 100, 249, 143, 167 >>),
       BE(<< 190, 250, 79, 164 >>) >>
    [] v = "SHA256" ->
    << BE(<< 106, 9, 230, 103 >>),
       BE(<< 187, 103, 174, 133 >>),
       BE(<< 60, 110, 243, 114 >>),
       BE(<< 165, 79, 245, 58 >>),
       BE(<< 81, 14, 82, 127 >>),
       BE(<< 155, 5, 104, 140 >>),
       BE(<< 31, 131, 217, 171 >>),
       BE(<< 91, 224, 205, 25 >>) >>
    [] v = "SHA384" ->
    << BE(<< 203, 187, 157, 93, 193, 5, 158, 216 >>),
       BE(<< 98, 154, 41, 42, 54, 124, 213, 7 >>),
       BE(<< 145, 89, 1, 90, 48, 112, 221, 23 >>),
       BE(<< 21, 47, 236, 216, 247, 14, 89, 57 >>),
       BE(<< 103, 51, 38, 103, 255, 192, 11, 49 >>),
       BE(<< 142, 180, 74, 135, 104, 88, 21, 17 >>),
       BE(<< 219, 12, 46, 13, 100, 249, 143, 167 >>),
       BE(<< 71, 181, 72, 29, 190, 250, 79, 164 >>) >>
    [] v = "SHA512" ->
    << BE(<< 106, 9, 230, 103, 243, 188, 201, 8 >>),
       BE(<< 187, 103, 174, 133, 132, 202, 167, 59 >>),
       BE(<< 60, 110, 243, 114, 254, 148, 248, 43 >>),
       BE(<< 165, 79, 245, 58, 95, 29, 54, 241 >>),
       BE(<< 81, 14, 82, 127, 173, 230, 130, 209 >>),
       BE(<< 155, 5, 104, 140, 43, 62, 108, 31 >>),
       BE(<< 31, 131, 217, 171, 251, 65, 189, 107 >>),
       BE(<< 91, 224, 205, 25, 19, 126, 33, 121 >>) >>

\* SHA1_Init ... SHA512_Init: the whole context is cleared, then h is set
PrimInit(v) ==
  [h |-> InitialH(v),
   nl |-> Zeros(WordBytes(v)),
   nh |-> Zeros(WordBytes(v)),
   x |-> Zeros(BlockSize(v)),
   nx |-> 0]

\* a checksum of the bytes of one block word in which every byte counts, with
\* a weight of its own
WordSum(w) ==
  w[1] + 3 * w[2] + 5 * w[3] + 7 * w[4]
    + (IF Len(w) = 8 THEN 9 * w[5] + 11 * w[6] + 13 * w[7] + 15 * w[8] ELSE 0)

\* one round of the stand-in compression function: chaining word a, rotated
\* by a byte, takes up its neighbour b, the block word w and the round t
Mix(a, b, w, t) == Tail(a) \o << (3 * a[1] + b[1] + WordSum(w) + t + 1) % 256 >>

RECURSIVE CompressFrom(_, _, _)
CompressFrom(hh, blk, t) ==
  IF t = 16 THEN hh
  ELSE LET n == Len(hh)
           wb == Len(hh[1])
           i == (t % n) + 1
           j == ((t + 1) % n) + 1
           w == SubSeq(blk, t * wb + 1, (t + 1) * wb)
       IN  CompressFrom([hh EXCEPT ![i] = Mix(hh[i], hh[j], w, t)], blk, t + 1)

\* the block function: one block absorbed into the chaining words
Compress(hh, blk) == CompressFrom(hh, blk, 0)

\* the block function over every full block of data, in order
RECURSIVE CompressAll(_, _, _)
CompressAll(hh, data, bs) ==
  IF Len(data) < bs THEN hh
  ELSE CompressAll(Compress(hh, Take(data, bs)), Drop(data, bs), bs)

\* whether the library clears the block buffer after compressing a buffered
\* block: the 32-bit-word family's shared update does, SHA-384/512's does not
ClearsBuffer(v) == v \in {"SHA1", "SHA224", "SHA256"}

\* the bit counter after len more bytes, len a size_t of 8 bytes:
\* Nl += len << 3 with the carry added to Nh, and Nh += len >> 29 (>> 61 for
\* the 64-bit-word family), each at the width of the counter's words
PrimCountBy(v, d, len) ==
  LET wb == WordBytes(v)
      l == Add(d.nl, Shl(Take(len, wb), 3))
      hi == Take(Shr(len, wb * 8 - 3), wb)
      nh1 == IF Less(l, d.nl) THEN Add(d.nh, FromNat(1, wb)) ELSE d.nh
  IN  [d EXCEPT !.nl = l, !.nh = Add(nh1, hi)]

\* the bit counter after len more bytes, len a number
PrimCount(v, d, len) == PrimCountBy(v, d, FromNat(len, 8))

\* SHA1_Update ... SHA512_Update on len(p) > 0 bytes
PrimUpdate(v, d0, p) ==
  LET bs == BlockSize(v)
      d == PrimCount(v, d0, Len(p))
      n == d.nx
  IN  IF Len(p) = 0 THEN d0
      ELSE IF n # 0 /\ Len(p) < bs - n
      THEN [d EXCEPT !.x = Take(d.x, n) \o p \o Drop(d.x, n + Len(p)),
                     !.nx = n + Len(p)]
      ELSE
      LET fill == IF n # 0 THEN bs - n ELSE 0
          full == Take(d.x, n) \o Take(p, fill)
          h1 == IF n # 0 THEN Compress(d.h, full) ELSE d.h
          x1 == IF n = 0 THEN d.x
                ELSE IF ClearsBuffer(v) THEN Zeros(bs) ELSE full
          rest == Drop(p, fill)
          h2 == CompressAll(h1, rest, bs)
          r == Len(rest) % bs
          tail == Drop(rest, Len(rest) - r)
      IN  [d EXCEPT !.h = h2,
                    !.x = tail \o Drop(x1, r),
                    !.nx = r]

\* SHA1_Final ... SHA512_Final: the digest, and the context it leaves behind
PrimFinal(v, d) ==
  LET bs == BlockSize(v)
      wb == WordBytes(v)
      lenb == 2 * wb
      p1 == Take(d.x, d.nx) \o << 128 >>
      two == Len(p1) > bs - lenb
      h1 == IF two THEN Compress(d.h, p1 \o Zeros(bs - Len(p1))) ELSE d.h
      p2 == IF two THEN <<>> ELSE p1
      last == p2 \o Zeros(bs - lenb - Len(p2)) \o BE(d.nh) \o BE(d.nl)
      h2 == Compress(h1, last)
      RECURSIVE Emit(_)
      Emit(i) == IF i > Len(h2) THEN <<>> ELSE BE(h2[i]) \o Emit(i + 1)
  IN  [md |-> Take(Emit(1), Size(v)),
       d |-> [d EXCEPT !.h = h2, !.x = Zeros(bs), !.nx = 0]]

(***************************************************************************)
(* Streaming adapter (sha.go, lines 110-168, 212-300, 401-503).  An        *)
(* adapter is the record [ctx, out] of sha1Hash ... sha512Hash.            *)
(***************************************************************************)

\* new(sha1Hash) ... new(sha512Hash): the zero value of the struct
NewHash(v) ==
  [ctx |-> [h |-> Tup([i \in 1..(IF v = "SHA1" THEN 5 ELSE 8) |-> Zeros(WordBytes(v))],
                      IF v = "SHA1" THEN 5 ELSE 8),
            nl |-> Zeros(WordBytes(v)),
            nh |-> Zeros(WordBytes(v)),
            x |-> Zeros(BlockSize(v)),
            nx |-> 0],
   out |-> Zeros(Size(v))]

\* h.Reset() of each adapter type: the type's own Init on the embedded context
sha1Hash_Reset(h) == [h EXCEPT !.ctx = PrimInit("SHA1")]

\* sha224Hash.Reset calling the Init of SHA-256
sha224Hash_Reset_Init256(h) == [h EXCEPT !.ctx = PrimInit("SHA256")]

sha224Hash_Reset(h) == [h EXCEPT !.ctx = PrimInit("SHA224")]

sha256Hash_Reset(h) == [h EXCEPT !.ctx = PrimInit("SHA256")]

sha384Hash_Reset(h) == [h EXCEPT !.ctx = PrimInit("SHA384")]

sha512Hash_Reset(h) == [h EXCEPT !.ctx = PrimInit("SHA512")]

Reset(v, h) ==
  CASE v = "SHA1" -> sha1Hash_Reset(h)
    [] v = "SHA224" -> sha224Hash_Reset(h)
    [] v = "SHA256" -> sha256Hash_Reset(h)
    [] v = "SHA384" -> sha384Hash_Reset(h)
    [] v = "SHA512" -> sha512Hash_Reset(h)

\* NewSHA1() ... NewSHA512()
New(v) == Reset(v, NewHash(v))

\* what SHA*_Update reports on len(p) > 0 bytes: its return value ret, non-zero
\* for success, and the context d it leaves; the library always succeeds
Update(v, d, p) == [ret |-> 1, d |-> PrimUpdate(v, d, p)]

\* what SHA*_Final reports: its return value ret, the digest md it stores and
\* the context d it leaves; the library always succeeds
Final(v, d) ==
  LET f == PrimFinal(v, d)
  IN  [ret |-> 1, md |-> f.md, d |-> f.d]

\* h.Write(p) that initialises the context before Update, as the one-shot
\* helpers SHA1(p) ... SHA512(p) do
Write_InitFirst(v, h, p) ==
  [h |-> IF Len(p) > 0 THEN [h EXCEPT !.ctx = PrimUpdate(v, PrimInit(v), p)] ELSE h,
   n |-> Len(p),
   err |-> NoError,
   panic |-> FALSE]

\* h.Write(p) calling Update whatever len(p) is, as WriteByte does
WriteGiven_Unguarded(v, h, p, r) ==
  IF r.ret = 0
  THEN [h |-> [h EXCEPT !.ctx = r.d], n |-> 0, err |-> NoError, panic |-> TRUE]
  ELSE [h |-> [h EXCEPT !.ctx = r.d], n |-> Len(p), err |-> NoError, panic |-> FALSE]

\* h.Write(p), where r is what Update reports if it is called: the adapter
\* after the call, the returned (n, err), and whether the call panicked
\* instead of returning.  Update is called only for len(p) > 0.
WriteGiven(v, h, p, r) ==
  IF Len(p) > 0 /\ r.ret = 0
  THEN [h |-> [h EXCEPT !.ctx = r.d], n |-> 0, err |-> NoError, panic |-> TRUE]
  ELSE [h |-> IF Len(p) > 0 THEN [h EXCEPT !.ctx = r.d] ELSE h,
        n |-> Len(p),
        err |-> NoError,
        panic |-> FALSE]

\* h.Write(p) over the library as it is
Write(v, h, p) == WriteGiven(v, h, p, Update(v, h.ctx, p))

\* h.WriteString(s), where r is what Update reports if it is called
WriteString(v, h, s, r) ==
  IF Len(s) > 0 /\ r.ret = 0
  THEN [h |-> [h EXCEPT !.ctx = r.d], n |-> 0, err |-> NoError, panic |-> TRUE]
  ELSE [h |-> IF Len(s) > 0 THEN [h EXCEPT !.ctx = r.d] ELSE h,
        n |-> Len(s),
        err |-> NoError,
        panic |-> FALSE]

\* h.WriteByte(c), where r is what Update reports: Update is always called
WriteByte(v, h, c, r) ==
  IF r.ret = 0
  THEN [h |-> [h EXCEPT !.ctx = r.d], err |-> NoError, panic |-> TRUE]
  ELSE [h |-> [h EXCEPT !.ctx = r.d], err |-> NoError, panic |-> FALSE]

\* h0.sum(dst) without the copy: Final runs on the receiver itself
sum_NoCopy(v, h0, dst) ==
  LET f == PrimFinal(v, h0.ctx)
      h == [h0 EXCEPT !.ctx = f.d, !.out = f.md]
  IN  [h0 |-> h, b |-> dst \o h.out, panic |-> FALSE]

\* h0.sum(dst) returning only the digest, without the prefix dst
sum_NoPrefix(v, h0, dst) ==
  LET f == PrimFinal(v, h0.ctx)
      h == [h0 EXCEPT !.ctx = f.d, !.out = f.md]
  IN  [h0 |-> h0, b |-> h.out, panic |-> FALSE]

\* h0.sum(dst) returning what is in the digest buffer when Final reports
\* failure
sumGiven_NoPanic(v, h0, dst, f) ==
  LET h == [h0 EXCEPT !.ctx = f.d, !.out = f.md]
  IN  [h0 |-> h0, b |-> dst \o h.out, panic |-> FALSE]

\* h0.sum(dst), where f is what Final reports on the copy h := *h0: Final
\* stores the digest in h.out; the copy is dropped on return
sumGiven(v, h0, dst, f) ==
  LET h == [h0 EXCEPT !.ctx = f.d, !.out = f.md]
  IN  IF f.ret = 0
      THEN [h0 |-> h0, b |-> <<>>, panic |-> TRUE]
      ELSE [h0 |-> h0, b |-> dst \o h.out, panic |-> FALSE]

\* h0.sum(dst) over the library as it is
sum(v, h0, dst) == sumGiven(v, h0, dst, Final(v, h0.ctx))

\* h.Sum(dst)
Sum(v, h, dst) == sum(v, h, dst)

\* the digest Final stores once it has padded and compressed: the chaining
\* words of context d in big-endian order, cut to the digest size
RECURSIVE PrimEmit(_, _, _)
PrimEmit(v, d, i) ==
  IF i > Len(d.h) THEN <<>>
  ELSE Take(BE(d.h[i]) \o PrimEmit(v, d, i + 1), Size(v) - (i - 1) * WordBytes(v))

\* h0.sum step by step, on the pair of the receiver *h0 and the local h.
\* The copy h := *h0.
sumCopy(h0) == [h0 |-> h0, h |-> h0]

\* Final padding and compressing in the receiver: h aliases *h0
sumPad_Alias(v, h0, h) ==
  [h0 |-> [h0 EXCEPT !.ctx = PrimFinal(v, h0.ctx).d],
   h |-> [h0 EXCEPT !.ctx = PrimFinal(v, h0.ctx).d]]

\* Final on h.ctx, first half: the pending bytes are padded and compressed
sumPad(v, h0, h) == [h0 |-> h0, h |-> [h EXCEPT !.ctx = PrimFinal(v, h.ctx).d]]

\* Final on h.ctx, second half: the digest is stored in h.out
sumEmit(v, h0, h) == [h0 |-> h0, h |-> [h EXCEPT !.out = PrimEmit(v, h.ctx, 1)]]

\* return append(dst, h.out[:]...)
sumReturn(dst, h) == dst \o h.out

(***************************************************************************)
(* The state machine: one adapter of a fixed variant, driven by a caller   *)
(* that writes, sums, takes a snapshot and restores snapshots.             *)
(***************************************************************************)

\* Write calls in one behaviour
MaxWrites == 2

VARIABLES
  variant,  \* the adapter's type
  hash,     \* the adapter: [ctx, out]
  snap,     \* the snapshot the caller holds: its bytes b, and the context ctx and
            \* the Write arguments written it was taken from; pure: that context
            \* was reached from Reset by Writes alone; exact: written is all the
            \* context stands for
  call,     \* the last call: operation op, argument arg, results b, n, err, panic;
            \* fresh: the adapter was as newly constructed when it was called;
            \* ret: what the library reported to it
  log       \* what the caller knows of the adapter: the Write arguments written
            \* it stands for (those of a restored snapshot included), exact as
            \* for snap; loaded: the bytes last restored since the last Reset;
            \* fresh: they were restored into a newly constructed adapter; tail:
            \* the Writes since; writes: the Write calls so far

VARIABLES
  sums,     \* the Sum calls in flight, by caller: where each one stands (pc), its
            \* argument dst, its private copy h of the adapter and its result b
  ctr       \* the bit counter of a context by the lengths written alone: its words
            \* nl and nh, the number of Writes counted, the total of their
            \* lengths, and dec, the words that come back from the snapshot of a
            \* context holding them

\* the state of the two studies kept apart from the caller's session
aux == << sums, ctr >>

vars == << variant, hash, snap, call, log, sums, ctr >>

\* the byte strings the caller writes: k bytes, none zero, each depending on
\* its position and on k
Payload(k) == Tup([i \in 1..k |-> ((7 * i + k) % 251) + 1], k)

Lens(v) == {0, 3, BlockSize(v) - 3, BlockSize(v) + 1}

\* for each variant the Write arguments, as byte sequences
PayloadTable == [v \in Variants |-> {Payload(k) : k \in Lens(v)}]

Payloads(v) == PayloadTable[v]

\* the prefixes dst handed to Sum
Dsts == {<<>>, << 170, 187 >>}

\* all the bytes of a list of Write arguments, in order
RECURSIVE Flat(_)
Flat(ps) == IF ps = <<>> THEN <<>> ELSE Head(ps) \o Flat(Tail(ps))

\* the adapter after writing each argument of ps in turn
RECURSIVE WriteAll(_, _, _)
WriteAll(v, h, ps) ==
  IF ps = <<>> THEN h ELSE WriteAll(v, Write(v, h, Head(ps)).h, Tail(ps))

Magic(v) ==
  CASE v = "SHA1" -> sha1Magic
    [] v = "SHA224" -> magic224
    [] v = "SHA256" -> magic256
    [] v = "SHA384" -> magic384
    [] v = "SHA512" -> magic512

MarshaledSize(v) ==
  CASE v = "SHA1" -> sha1MarshaledSize
    [] v \in {"SHA224", "SHA256"} -> marshaledSize256
    [] v \in {"SHA384", "SHA512"} -> marshaledSize512

\* chaining words of a context
NumWords(v) == IF v = "SHA1" THEN 5 ELSE 8

\* where the pending-buffer region of a snapshot starts (0-based offset)
BufferOffset(v) == Len(Magic(v)) + NumWords(v) * WordBytes(v)

\* for each variant a snapshot taken by that variant's adapter after one Write
ForeignSnaps ==
  [w \in Variants |-> MarshalBinary(w, Write(w, New(w), Payload(3)).h.ctx).b]

\* a snapshot with its tag replaced by a tag of no variant in use
WrongTag(b) == magic512_224 \o Drop(b, Len(magic512_224))

\* a snapshot whose last buffer byte, past the valid bytes, is set
Dirty(v, b) == [b EXCEPT ![BufferOffset(v) + BlockSize(v)] = 255]

\* the byte strings handed to UnmarshalBinary that it accepts
Accepted(v, b) == IF b = <<>> THEN {} ELSE {b, Dirty(v, b)}

\* the byte strings handed to UnmarshalBinary that it rejects: before the caller
\* holds a snapshot of its own, nothing or another variant's snapshot; after,
\* its snapshot with the tag altered, cut short, or a byte shorter or longer
Rejected(v, b) ==
  IF b = <<>> THEN {<<>>} \cup {ForeignSnaps[w] : w \in Variants \ {v}}
  ELSE {WrongTag(b), Take(b, 3), Take(b, Len(b) - 1), b \o << 0 >>}

NoSnap == [b |-> <<>>, ctx |-> <<>>, written |-> <<>>, pure |-> FALSE, exact |-> FALSE]

NoCall == [op |-> "New", arg |-> <<>>, b |-> <<>>, n |-> 0, err |-> NoError,
           panic |-> FALSE, fresh |-> TRUE, ret |-> 1]

\* a freshly constructed adapter of each variant
Fresh == [v \in Variants |-> New(v)]

\* the callers that may have a Sum in flight at once
NumCallers == 2

Callers == 1..NumCallers

\* a caller with no Sum in flight
Idle == [pc |-> "idle", dst |-> <<>>, h |-> <<>>, b |-> <<>>]

\* the counter words of a context of variant v right after Init, nothing
\* counted; total is the number of bytes counted, as a 16-byte integer
NoCount(v) ==
  [nl |-> PrimInit(v).nl, nh |-> PrimInit(v).nh, writes |-> 0, dec |-> <<>>,
   total |-> Zeros(16)]

Init ==
  /\ variant \in Variants
  /\ hash = Fresh[variant]
  /\ snap = NoSnap
  /\ call = NoCall
  /\ log = [written |-> <<>>, exact |-> TRUE, loaded |-> <<>>, fresh |-> FALSE, tail |-> 0,
           writes |-> 0]
  /\ sums = [c \in Callers |-> Idle]
  /\ ctr = NoCount(variant)

\* the caller calls h.Reset()
DoReset ==
  /\ hash' = Reset(variant, hash)
  /\ call' = [NoCall EXCEPT !.op = "Reset", !.fresh = (hash = Fresh[variant])]
  /\ log' = [log EXCEPT !.written = <<>>, !.exact = TRUE, !.loaded = <<>>, !.fresh = FALSE,
                     !.tail = 0]
  /\ UNCHANGED << variant, snap, aux >>

\* the caller calls h.Write(p); r is what the call returns
DoWrite(p) ==
  /\ log.writes < MaxWrites
  /\ \E r \in {Write(variant, hash, p)} :
       /\ hash' = r.h
       /\ call' = [NoCall EXCEPT !.op = "Write", !.arg = p, !.n = r.n, !.err = r.err,
                                 !.fresh = (hash = Fresh[variant])]
  /\ log' = [log EXCEPT !.written = Append(@, p), !.tail = @ + 1, !.writes = @ + 1]
  /\ UNCHANGED << variant, snap, aux >>

\* the caller calls h.Sum(dst); r is what the call returns
DoSum(dst) ==
  /\ \E r \in {Sum(variant, hash, dst)} :
       /\ hash' = r.h0
       /\ call' = [NoCall EXCEPT !.op = "Sum", !.arg = dst, !.b = r.b,
                                 !.fresh = (hash = Fresh[variant])]
  /\ UNCHANGED << variant, snap, log, aux >>

\* the caller calls h.MarshalBinary(); r is what the call returns; the first
\* snapshot taken is the one kept
DoMarshal ==
  /\ \E r \in {MarshalBinary(variant, hash.ctx)} :
       /\ call' = [NoCall EXCEPT !.op = "MarshalBinary", !.b = r.b, !.err = r.err,
                                 !.panic = r.panic, !.fresh = (hash = Fresh[variant])]
       /\ snap' = IF snap # NoSnap THEN snap
                  ELSE [b |-> r.b, ctx |-> hash.ctx, written |-> log.written,
                        pure |-> (log.loaded = <<>>), exact |-> log.exact]
  /\ UNCHANGED << variant, hash, log, aux >>

\* the caller calls h.UnmarshalBinary(b); r is what the call returns
DoUnmarshal(b) ==
  /\ \E r \in {UnmarshalBinary(variant, hash.ctx, b)} :
       /\ hash' = [hash EXCEPT !.ctx = r.d]
       /\ call' = [NoCall EXCEPT !.op = "UnmarshalBinary", !.arg = b, !.err = r.err,
                                 !.fresh = (hash = Fresh[variant])]
       /\ log' = IF r.err # NoError THEN log
                 ELSE [log EXCEPT !.written = snap.written,
                                  !.exact = (snap.exact /\ b = snap.b),
                                  !.loaded = b,
                                  !.fresh = (hash = Fresh[variant]),
                                  !.tail = 0]
  /\ UNCHANGED << variant, snap, aux >>

\* streaming, snapshots and restores of well-formed snapshots
Next ==
  \/ DoReset
  \/ \E p \in Payloads(variant) : DoWrite(p)
  \/ \E dst \in Dsts : DoSum(dst)
  \/ DoMarshal
  \/ snap # NoSnap /\ DoUnmarshal(snap.b)

Spec == Init /\ [][Next]_vars

\* a caller that also hands malformed and foreign byte strings to UnmarshalBinary
NextReject ==
  \/ \E p \in Payloads(variant) : DoWrite(p)
  \/ DoMarshal
  \/ \E b \in Accepted(variant, snap.b) \cup Rejected(variant, snap.b) : DoUnmarshal(b)

SpecReject == Init /\ [][NextReject]_vars

\* length fields of snapshots no Write sequence of the caller produced: the
\* largest 64-bit count, the largest 61-bit count, and a count of one byte
\* less than a block
LengthFields(v) ==
  {<< 255, 255, 255, 255, 255, 255, 255, 255 >>,
   << 31, 255, 255, 255, 255, 255, 255, 255 >>,
   << 0, 0, 0, 0, 0, 0, 0, BlockSize(v) - 1 >>}

\* snapshot b with its length field replaced: byte strings of the right tag
\* and size that are not snapshots of the caller's stream
Forged(v, b) ==
  IF b = <<>> THEN {} ELSE {Take(b, Len(b) - 8) \o f : f \in LengthFields(v)}

\* the Write arguments of the caller that restores such byte strings: less
\* than a block, and more
ForgePayloads(v) == {Payload(3), Payload(BlockSize(v) + 1)}

\* a caller that streams, sums, takes snapshots and restores any byte string
\* UnmarshalBinary accepts
NextForge ==
  \/ DoReset
  \/ \E p \in ForgePayloads(variant) : DoWrite(p)
  \/ \E dst \in Dsts : DoSum(dst)
  \/ DoMarshal
  \/ \E b \in Accepted(variant, snap.b) \cup Forged(variant, snap.b) : DoUnmarshal(b)

SpecForge == Init /\ [][NextForge]_vars

\* what Update may report to a caller that tests its return value: success as
\* the library gives it, or failure, leaving the context as it was or cleared
UpdateReports(v, d, p) ==
  {Update(v, d, p), [ret |-> 0, d |-> d], [ret |-> 0, d |-> PrimInit(v)]}

\* what Final may report: success as the library gives it, or failure with
\* nothing stored
FinalReports(v, d) ==
  {Final(v, d), [ret |-> 0, md |-> Zeros(Size(v)), d |-> d]}

\* the arguments of WriteByte
Bytes == {0, 97}

\* the adapter types that have WriteString and WriteByte: all but sha224Hash
StringWriters == {"SHA1", "SHA256", "SHA384", "SHA512"}

\* the caller calls h.Write(p) and Update reports u; a panic ends the session
FaultWrite(p) ==
  /\ ~call.panic
  /\ log.writes < MaxWrites
  /\ \E u \in UpdateReports(variant, hash.ctx, p) :
       \E r \in {WriteGiven(variant, hash, p, u)} :
         /\ hash' = r.h
         /\ call' = [NoCall EXCEPT !.op = "Write", !.arg = p, !.n = r.n, !.err = r.err,
                                   !.panic = r.panic, !.ret = u.ret,
                                   !.fresh = (hash = Fresh[variant])]
  /\ log' = [log EXCEPT !.written = Append(@, p), !.tail = @ + 1, !.writes = @ + 1]
  /\ UNCHANGED << variant, snap, aux >>

\* the caller calls h.WriteString(s) and Update reports u
FaultWriteString(s) ==
  /\ ~call.panic
  /\ variant \in StringWriters
  /\ log.writes < MaxWrites
  /\ \E u \in UpdateReports(variant, hash.ctx, s) :
       \E r \in {WriteString(variant, hash, s, u)} :
         /\ hash' = r.h
         /\ call' = [NoCall EXCEPT !.op = "WriteString", !.arg = s, !.n = r.n,
                                   !.err = r.err, !.panic = r.panic, !.ret = u.ret,
                                   !.fresh = (hash = Fresh[variant])]
  /\ log' = [log EXCEPT !.written = Append(@, s), !.tail = @ + 1, !.writes = @ + 1]
  /\ UNCHANGED << variant, snap, aux >>

\* the caller calls h.WriteByte(c) and Update reports u
FaultWriteByte(c) ==
  /\ ~call.panic
  /\ variant \in StringWriters
  /\ log.writes < MaxWrites
  /\ \E u \in UpdateReports(variant, hash.ctx, << c >>) :
       \E r \in {WriteByte(variant, hash, c, u)} :
         /\ hash' = r.h
         /\ call' = [NoCall EXCEPT !.op = "WriteByte", !.arg = << c >>, !.n = 1,
                                   !.err = r.err, !.panic = r.panic, !.ret = u.ret,
                                   !.fresh = (hash = Fresh[variant])]
  /\ log' = [log EXCEPT !.written = Append(@, << c >>), !.tail = @ + 1, !.writes = @ + 1]
  /\ UNCHANGED << variant, snap, aux >>

\* the caller calls h.Sum(dst) and Final reports f
FaultSum(dst) ==
  /\ ~call.panic
  /\ \E f \in FinalReports(variant, hash.ctx) :
       \E r \in {sumGiven(variant, hash, dst, f)} :
         /\ hash' = r.h0
         /\ call' = [NoCall EXCEPT !.op = "Sum", !.arg = dst, !.b = r.b,
                                   !.panic = r.panic, !.ret = f.ret,
                                   !.fresh = (hash = Fresh[variant])]
  /\ UNCHANGED << variant, snap, log, aux >>

\* a caller over a library that may report failure
NextFault ==
  \/ \E p \in Payloads(variant) : FaultWrite(p)
  \/ \E s \in Payloads(variant) : FaultWriteString(s)
  \/ \E c \in Bytes : FaultWriteByte(c)
  \/ \E dst \in Dsts : FaultSum(dst)

SpecFault == Init /\ [][NextFault]_vars

\* no Sum call is between its first and its last step
NoSumInFlight == \A c \in Callers : sums[c].pc \in {"idle", "done"}

\* the Write arguments of the callers that sum concurrently
ConcPayloads(v) == {Payload(3), Payload(BlockSize(v) + 1)}

\* a caller writes while no Sum is in flight; the results of earlier Sums are
\* dropped
ConcWrite(p) ==
  /\ NoSumInFlight
  /\ log.writes < MaxWrites
  /\ \E r \in {Write(variant, hash, p)} :
       /\ hash' = r.h
       /\ call' = [NoCall EXCEPT !.op = "Write", !.arg = p, !.n = r.n, !.err = r.err,
                                 !.fresh = (hash = Fresh[variant])]
  /\ log' = [log EXCEPT !.written = Append(@, p), !.tail = @ + 1, !.writes = @ + 1]
  /\ sums' = [c \in Callers |-> Idle]
  /\ UNCHANGED << variant, snap, ctr >>

\* caller c enters h.Sum(dst) with a prefix of its own and copies the adapter
SumCopy(c) ==
  /\ sums[c].pc \in {"idle", "done"}
  /\ \E r \in {sumCopy(hash)} :
       /\ hash' = r.h0
       /\ sums' = [sums EXCEPT ![c] = [pc |-> "copied", dst |-> << c, 187 >>, h |-> r.h,
                                       b |-> <<>>]]
  /\ UNCHANGED << variant, snap, call, log, ctr >>

\* caller c's Final pads and compresses
SumPad(c) ==
  /\ sums[c].pc = "copied"
  /\ \E r \in {sumPad(variant, hash, sums[c].h)} :
       /\ hash' = r.h0
       /\ sums' = [sums EXCEPT ![c].pc = "padded", ![c].h = r.h]
  /\ UNCHANGED << variant, snap, call, log, ctr >>

\* caller c's Final stores the digest
SumEmit(c) ==
  /\ sums[c].pc = "padded"
  /\ \E r \in {sumEmit(variant, hash, sums[c].h)} :
       /\ hash' = r.h0
       /\ sums' = [sums EXCEPT ![c].pc = "stored", ![c].h = r.h]
  /\ UNCHANGED << variant, snap, call, log, ctr >>

\* caller c's Sum returns
SumReturn(c) ==
  /\ sums[c].pc = "stored"
  /\ sums' = [sums EXCEPT ![c].pc = "done", ![c].b = sumReturn(sums[c].dst, sums[c].h)]
  /\ UNCHANGED << variant, hash, snap, call, log, ctr >>

\* callers that sum concurrently and write in between
NextConc ==
  \/ \E p \in ConcPayloads(variant) : ConcWrite(p)
  \/ \E c \in Callers : SumCopy(c)
  \/ \E c \in Callers : SumPad(c)
  \/ \E c \in Callers : SumEmit(c)
  \/ \E c \in Callers : SumReturn(c)

SpecConc == Init /\ [][NextConc]_vars

\* Write lengths counted in one behaviour of the counter study
MaxCounts == 3

\* lengths len(p) as size_t: 3, 2^29, 2^61 - 1 and 2^63 - 1; a length too large
\* for one slice stands for Writes that total it
Lengths ==
  {<< 3, 0, 0, 0, 0, 0, 0, 0 >>,
   << 0, 0, 0, 32, 0, 0, 0, 0 >>,
   << 255, 255, 255, 255, 255, 255, 255, 31 >>,
   << 255, 255, 255, 255, 255, 255, 255, 127 >>}

\* the number of bytes pending in a context whose low counter word is nl: the
\* byte count modulo the block size
PendingOf(v, nl) == (nl[1] \div 8) + (nl[2] % (BlockSize(v) \div 32)) * 32

\* a context of variant v holding the counter words of c; h and the pending
\* bytes, which the counter does not determine, are those of a short stream
Counted(v, c) ==
  [PrimInit(v) EXCEPT !.nl = c.nl,
                      !.nh = c.nh,
                      !.nx = PendingOf(v, c.nl),
                      !.x = Payload(PendingOf(v, c.nl))
                              \o Zeros(BlockSize(v) - PendingOf(v, c.nl))]

\* Update counts len more bytes
Count(len) ==
  /\ ctr.writes < MaxCounts
  /\ \E r \in {PrimCountBy(variant, ctr, len)} :
       ctr' = [r EXCEPT !.writes = @ + 1, !.dec = <<>>,
                        !.total = Add(@, len \o Zeros(8))]
  /\ UNCHANGED << variant, hash, snap, call, log, sums >>

\* MarshalBinary of a context holding the counter, then UnmarshalBinary of the
\* result into a fresh adapter
Recount ==
  /\ ctr.dec = <<>>
  /\ \E m \in {MarshalBinary(variant, Counted(variant, ctr))} :
       \E r \in {UnmarshalBinary(variant, Fresh[variant].ctx, m.b)} :
         ctr' = [ctr EXCEPT !.dec = [nl |-> r.d.nl, nh |-> r.d.nh, nx |-> r.d.nx,
                                     err |-> r.err, panic |-> m.panic]]
  /\ UNCHANGED << variant, hash, snap, call, log, sums >>

\* the counter of one context over growing input, and its trip through the
\* snapshot
NextCount ==
  \/ \E len \in Lengths : Count(len)
  \/ Recount

SpecCount == Init /\ [][NextCount]_vars

(***************************************************************************)
(* Properties of the streaming adapters and of the state codec.            *)
(***************************************************************************)

\* h.Sum(nil)
Digest(v, h) == Sum(v, h, <<>>).b

\* Reset; Write(m1 ++ ... ++ mk): one Write of all the bytes of ps
OneShot(v, ps) == Write(v, Reset(v, Fresh[v]), Flat(ps)).h

\* two contexts alike in chaining words, counters, valid count and valid
\* pending bytes
SameValid(c, d) ==
  /\ c.h = d.h
  /\ c.nl = d.nl
  /\ c.nh = d.nh
  /\ c.nx = d.nx
  /\ Take(c.x, c.nx) = Take(d.x, d.nx)

\* the buffer of context c holds a non-zero byte past its valid bytes
StaleBuffer(c) == \E j \in (c.nx + 1)..Len(c.x) : c.x[j] # 0

IdentifierErrors ==
  {"crypto/sha1: invalid hash state identifier",
   "crypto/sha256: invalid hash state identifier",
   "crypto/sha512: invalid hash state identifier"}

SizeErrors ==
  {"crypto/sha1: invalid hash state size",
   "crypto/sha256: invalid hash state size",
   "crypto/sha512: invalid hash state size"}

\* the adapter was restored from a snapshot of its own variant, unaltered
Resumed == log.loaded # <<>> /\ log.exact

\* C1: checkpoint/resume equivalence.  An adapter restored from the snapshot
\* taken after Reset; Write(m1), and then written m2 (log.written is m1's
\* Writes followed by m2's), returns from Sum the digest of the uninterrupted
\* run Reset; Write(m1 ++ m2), and stays in agreement with that run in every
\* later Sum and MarshalBinary.
C1_CheckpointResume ==
  Resumed =>
    LET u == OneShot(variant, log.written)
    IN  /\ Digest(variant, hash) = Digest(variant, u)
        /\ MarshalBinary(variant, hash.ctx).b = MarshalBinary(variant, u.ctx).b
        /\ call.op = "Sum" => call.b = call.arg \o Digest(variant, u)
        /\ call.op = "MarshalBinary" => call.b = MarshalBinary(variant, u.ctx).b

\* C1 witness: a snapshot taken after a non-empty Write was restored into a
\* fresh adapter, more bytes were written, and Sum was called
C1_Witness ==
  /\ Resumed
  /\ log.fresh
  /\ snap.written # <<>>
  /\ Flat(snap.written) # <<>>
  /\ log.tail > 0
  /\ Len(Flat(log.written)) > Len(Flat(snap.written))
  /\ call.op = "Sum"

\* the state right after UnmarshalBinary was handed the snapshot taken from a
\* context reached from Reset by Writes alone
RoundTrip ==
  /\ call.op = "UnmarshalBinary"
  /\ call.arg = snap.b
  /\ snap.pure

WireSize(v) ==
  CASE v = "SHA1" -> 96
    [] v \in {"SHA224", "SHA256"} -> 108
    [] v \in {"SHA384", "SHA512"} -> 204

\* b begins with the magic tag of variant v
TagMatches(v, b) == Len(b) >= Len(Magic(v)) /\ Take(b, Len(Magic(v))) = Magic(v)

\* C3: the outcome of UnmarshalBinary(b) is determined by b: an identifier
\* error if and only if b is shorter than the tag or does not begin with the
\* variant's tag; a size error if and only if the tag matches and the length
\* is not the variant's size (96, 108 or 204); success otherwise.  So an
\* altered tag gives the identifier error, and a truncated or extended
\* snapshot with the right tag gives the size error.
C3_UnmarshalOutcome ==
  call.op = "UnmarshalBinary" =>
    LET b == call.arg
        tag == TagMatches(variant, b)
    IN  /\ call.err \in IdentifierErrors <=> ~tag
        /\ call.err \in SizeErrors <=> (tag /\ Len(b) # WireSize(variant))
        /\ call.err = NoError <=> (tag /\ Len(b) = WireSize(variant))
        /\ (snap.b # <<>> /\ b = WrongTag(snap.b)) => call.err \in IdentifierErrors
        /\ (snap.b # <<>> /\ b \in {Take(snap.b, Len(snap.b) - 1), snap.b \o << 0 >>})
             => call.err \in SizeErrors

\* C3 witness: a valid snapshot cut by one byte was rejected for its size
C3_Witness ==
  /\ call.op = "UnmarshalBinary"
  /\ snap.b # <<>>
  /\ call.arg = Take(snap.b, Len(snap.b) - 1)
  /\ call.err \in SizeErrors

\* C4: a snapshot produced by one variant's MarshalBinary is rejected with
\* the identifier error by the UnmarshalBinary of every other variant, the
\* one of equal snapshot size included; the five tags are pairwise distinct.
C4_CrossVariantRejection ==
  /\ \A v, w \in Variants : v # w => Magic(v) # Magic(w)
  /\ \A w \in Variants \ {variant} :
       (call.op = "UnmarshalBinary" /\ call.arg = ForeignSnaps[w])
         => call.err \in IdentifierErrors

\* C4 witness: a SHA-224 adapter was handed a SHA-256 snapshot, which is of
\* its own snapshot size
C4_Witness ==
  /\ variant = "SHA224"
  /\ call.op = "UnmarshalBinary"
  /\ call.arg = ForeignSnaps["SHA256"]
  /\ Len(call.arg) = MarshaledSize(variant)
  /\ call.err \in IdentifierErrors

\* the adapter has been driven by Reset, Write and Sum alone
Streamed == log.loaded = <<>>

\* C5: Sum has no side effect on the adapter.  A step that calls Sum (the
\* call recorded after it is a Sum) leaves the adapter as it was, a Sum right
\* after a Sum returns the same digest, and an adapter driven by Writes with
\* Sums in between is the adapter the same Writes give without any Sum.
C5_SumSideEffectFree ==
  /\ [](Streamed => hash = WriteAll(variant, Fresh[variant], log.written))
  /\ [][call'.op = "Sum" =>
          /\ hash' = hash
          /\ call.op = "Sum" =>
               Drop(call'.b, Len(call'.arg)) = Drop(call.b, Len(call.arg))]_vars

\* C5 witness: Sum was called on an adapter that holds pending bytes
C5_Witness ==
  /\ call.op = "Sum"
  /\ Streamed
  /\ hash.ctx.nx > 0
  /\ Len(call.b) = Len(call.arg) + Size(variant)

\* C6 as stated: after Reset, the Writes m1, ..., mk reach the same context
\* state as the single Write of m1 ++ ... ++ mk.
C6_IncrementalAsStated ==
  Streamed => hash.ctx = OneShot(variant, log.written).ctx

\* C6 amended: after Reset, the Writes m1, ..., mk reach the chaining words,
\* counters, valid count and valid pending bytes of the single Write of
\* m1 ++ ... ++ mk, hence the same Sum digest and the same MarshalBinary
\* bytes; buffer bytes past the valid count may differ.
C6_IncrementalEquivalence ==
  Streamed =>
    LET u == OneShot(variant, log.written)
    IN  /\ SameValid(hash.ctx, u.ctx)
        /\ Digest(variant, hash) = Digest(variant, u)
        /\ MarshalBinary(variant, hash.ctx).b = MarshalBinary(variant, u.ctx).b

\* C6 witness: two non-empty Writes, the second of which crossed a block
\* boundary with bytes buffered by the first
C6_Witness ==
  /\ Streamed
  /\ Len(log.written) = 2
  /\ Len(log.written[1]) = 3
  /\ Len(log.written[2]) = BlockSize(variant) - 3
  /\ hash.ctx.nx = 0

\* C7: MarshalBinary is pure and never fails.  A step that calls
\* MarshalBinary (the call recorded after it is a MarshalBinary) leaves the
\* adapter as it was, returns a nil error without panicking and exactly the
\* variant's snapshot size (96, 108 or 204 bytes), and a MarshalBinary right
\* after a MarshalBinary returns identical bytes.
C7_MarshalPure ==
  [][call'.op = "MarshalBinary" =>
       /\ hash' = hash
       /\ call'.err = NoError
       /\ ~call'.panic
       /\ Len(call'.b) = WireSize(variant)
       /\ call.op = "MarshalBinary" => call'.b = call.b]_vars

\* C7 witness: MarshalBinary was called on an adapter that was restored from
\* a snapshot and holds pending bytes
C7_Witness ==
  /\ call.op = "MarshalBinary"
  /\ log.loaded # <<>>
  /\ hash.ctx.nx > 0
  /\ call.err = NoError
  /\ Len(call.b) = WireSize(variant)

\* C8: the wire layout.  A snapshot is the 4-byte tag, the chaining words in
\* big-endian order, a buffer region of the block size holding the nx pending
\* bytes followed by zero bytes, whatever the buffer holds past nx, and the
\* total byte count as an 8-byte big-endian integer.
C8_WireLayout ==
  call.op = "MarshalBinary" =>
    LET b == call.b
        d == hash.ctx
        wb == WordBytes(variant)
        off == BufferOffset(variant)
        bs == BlockSize(variant)
    IN  /\ Len(b) = off + bs + 8
        /\ Take(b, 4) = Magic(variant)
        /\ \A i \in 1..NumWords(variant) :
             SubSeq(b, 4 + (i - 1) * wb + 1, 4 + i * wb) = BE(d.h[i])
        /\ SubSeq(b, off + 1, off + d.nx) = Take(d.x, d.nx)
        /\ \A j \in (d.nx + 1)..bs : b[off + j] = 0
        /\ log.exact =>
             SubSeq(b, off + bs + 1, off + bs + 8) = BE(FromNat(Len(Flat(log.written)), 8))

\* C8 witness: MarshalBinary was called on an adapter restored from a
\* snapshot with a non-zero byte in its padding, whose buffer holds that byte
\* past nx
C8_Witness ==
  /\ call.op = "MarshalBinary"
  /\ log.loaded # <<>>
  /\ log.loaded # snap.b
  /\ StaleBuffer(hash.ctx)
  /\ hash.ctx.nx > 0

\* adapters in other states than the one the snapshot was restored into
Others(v) == {Fresh[v], Write(v, Fresh[v], Payload(BlockSize(v) - 3)).h}

\* the Writes since the last restore
TailWrites == SubSeq(log.written, Len(log.written) - log.tail + 1, Len(log.written))

\* C9: UnmarshalBinary overwrites.  After a successful UnmarshalBinary(b) and
\* the Writes that followed, the adapter is indistinguishable from any other
\* adapter of the variant that restored the same b from another state and was
\* written the same: equal chaining words, counters, valid count and valid
\* pending bytes, equal MarshalBinary bytes, equal digest.
C9_UnmarshalOverwrites ==
  log.loaded # <<>> =>
    \A o \in Others(variant) :
      LET r == UnmarshalBinary(variant, o.ctx, log.loaded)
          t == WriteAll(variant, [o EXCEPT !.ctx = r.d], TailWrites)
      IN  /\ r.err = NoError
          /\ SameValid(hash.ctx, t.ctx)
          /\ MarshalBinary(variant, hash.ctx).b = MarshalBinary(variant, t.ctx).b
          /\ Digest(variant, hash) = Digest(variant, t)

\* C9 witness: a snapshot was restored into an adapter that was not fresh and
\* held pending bytes other than the snapshot's, and Writes followed
C9_Witness ==
  /\ log.loaded # <<>>
  /\ ~log.fresh
  /\ log.tail > 0
  /\ TailWrites[1] # <<>>

\* C10: Reset returns the adapter to the initial state of its variant: the
\* algorithm's initial chaining words, a zero byte count and an empty pending
\* buffer; MarshalBinary right after Reset returns the bytes it returns on a
\* newly constructed adapter.
C10_ResetInitial ==
  call.op = "Reset" =>
    LET d == hash.ctx
        b == MarshalBinary(variant, d).b
        off == BufferOffset(variant)
    IN  /\ d.h = InitialH(variant)
        /\ d.nl = Zeros(WordBytes(variant))
        /\ d.nh = Zeros(WordBytes(variant))
        /\ d.nx = 0
        /\ d.x = Zeros(BlockSize(variant))
        /\ b = MarshalBinary(variant, New(variant).ctx).b
        /\ Drop(b, off) = Zeros(BlockSize(variant) + 8)

\* C10 witness: Reset was called on an adapter that was not in its initial
\* state
C10_Witness == call.op = "Reset" /\ ~call.fresh

\* the adapter was just restored from a byte string with a replaced length
\* field
ForgedRestore ==
  /\ call.op = "UnmarshalBinary"
  /\ call.err = NoError
  /\ call.arg \in Forged(variant, snap.b)

\* C11: the buffer invariant.  In every state reached by Reset, Write, Sum,
\* MarshalBinary and successful UnmarshalBinary of any accepted byte string,
\* the valid count nx is strictly less than the block size (64 or 128): a full
\* block is never left buffered.
C11_BufferInvariant ==
  /\ hash.ctx.nx >= 0
  /\ hash.ctx.nx < BlockSize(variant)
  /\ BlockSize(variant) = (IF variant \in {"SHA384", "SHA512"} THEN 128 ELSE 64)

\* C11 witness: a byte string whose length field is not a multiple of the
\* block size was restored, leaving one byte less than a block pending, and a
\* Write then filled the block and more
C11_Witness ==
  /\ call.op = "Write"
  /\ Len(call.arg) > BlockSize(variant)
  /\ log.tail = 1
  /\ log.loaded \in Forged(variant, snap.b)
  /\ UnmarshalBinary(variant, Fresh[variant].ctx, log.loaded).d.nx = BlockSize(variant) - 1
  /\ hash.ctx.nx = 0

\* the bit counter nh:nl of a context as one integer
Counter(d) == d.nl \o d.nh

\* a + b does not fit the width of a
Carries(a, b) == Add(a \o << 0 >>, b \o << 0 >>)[Len(a) + 1] # 0

\* C12 as stated: across every Write call the bit counter nh:nl after the
\* call is greater than or equal to its value before the call.
C12_MonotonicAsStated ==
  [][call'.op = "Write" => ~Less(Counter(hash'.ctx), Counter(hash.ctx))]_vars

\* C12 amended: across every Write(p) the bit counter nh:nl advances by
\* 8 * len(p) at its own width (64 bits for SHA-1/224/256, 128 bits for
\* SHA-384/512); it is greater than or equal to its value before the call
\* unless the sum exceeds that width, and then it wraps around.
C12_CounterAdvance ==
  [][call'.op = "Write" =>
       LET a == Counter(hash.ctx)
           k == FromNat(8 * Len(call'.arg), Len(a))
       IN  /\ Counter(hash'.ctx) = Add(a, k)
           /\ ~Carries(a, k) => ~Less(Counter(hash'.ctx), a)
           /\ (Carries(a, k) /\ Len(call'.arg) > 0) => Less(Counter(hash'.ctx), a)]_vars

\* C12 witness: a Write crossed a 32-bit boundary of the counter's low word
\* without wrapping the counter: the carry went into nh
C12_Witness ==
  /\ call.op = "Write"
  /\ Len(call.arg) > 0
  /\ variant \in {"SHA384", "SHA512"}
  /\ hash.ctx.nh = FromNat(8, 8)
  /\ hash.ctx.nl = FromNat(8 * Len(call.arg) - 8, 8)

\* C13: Write and Sum have no recoverable error outcome.  A Write (or
\* WriteString) that returns returns (len(p), nil); with empty input it does
\* not consult the library, does not panic and leaves the adapter unchanged
\* whatever the library would have reported; whenever Update or Final is
\* called and reports failure the call panics, returning neither an error
\* value nor a digest, and it panics in no other case.
C13_NoRecoverableError ==
  [][LET c == call'
     IN  /\ c.op \in {"Write", "WriteString"} =>
              /\ c.err = NoError
              /\ ~c.panic => c.n = Len(c.arg)
              /\ Len(c.arg) = 0 => (~c.panic /\ hash' = hash)
              /\ c.panic <=> (Len(c.arg) > 0 /\ c.ret = 0)
         /\ c.op = "WriteByte" => (c.err = NoError /\ (c.panic <=> c.ret = 0))
         /\ c.op = "Sum" =>
              /\ c.err = NoError
              /\ c.panic <=> c.ret = 0
              /\ c.panic => c.b = <<>>
              /\ ~c.panic => Len(c.b) = Len(c.arg) + Size(variant)
              /\ hash' = hash]_vars

\* C13 witness: after a Write of empty input, Update reported failure in a
\* Write of more than a block and the call panicked
C13_Witness ==
  /\ call.op = "Write"
  /\ Len(call.arg) > BlockSize(variant)
  /\ call.ret = 0
  /\ call.panic
  /\ Len(log.written) = 2
  /\ log.written[1] = <<>>

\* C14: concurrent Sum isolation.  With Sum calls interleaved step by step
\* and no Write meanwhile, every call that has returned returned its prefix
\* followed by the digest of the bytes written so far, which is what Sum
\* returns when called alone; every call in flight works on a copy that no
\* other call has touched (it is the adapter, or the adapter finalized by this
\* call); and the shared adapter stays the adapter the Writes gave.
C14_ConcurrentSum ==
  LET ref == WriteAll(variant, Fresh[variant], log.written)
      fin == [ref EXCEPT !.ctx = PrimFinal(variant, ref.ctx).d]
  IN  /\ hash = ref
      /\ \A c \in Callers :
           /\ sums[c].pc = "done" => sums[c].b = Sum(variant, ref, sums[c].dst).b
           /\ sums[c].pc = "copied" => sums[c].h = ref
           /\ sums[c].pc = "padded" => sums[c].h = fin
           /\ sums[c].pc = "stored" =>
                sums[c].h = [fin EXCEPT !.out = Digest(variant, ref)]

\* C14 witness: one caller's Sum has returned while another caller's Sum is
\* half way through Final, on an adapter holding pending bytes
C14_Witness ==
  /\ sums[1].pc = "done"
  /\ sums[2].pc = "padded"
  /\ hash.ctx.nx > 0
  /\ Len(sums[1].b) = 2 + Size(variant)

\* the 32-bit-word and the 64-bit-word variants
Word32 == {"SHA1", "SHA224", "SHA256"}

Word64 == {"SHA384", "SHA512"}

\* the bits counted in all, 8 * total, as a 17-byte integer
TotalBits == Shl(ctr.total \o << 0 >>, 3)

\* the bytes counted exceed what the two counter words can hold as bits
Wrapped(v) == \E i \in (2 * WordBytes(v) + 1)..17 : TotalBits[i] # 0

\* C15: length-field inversion for SHA-1/224/256.  For every counter pair
\* (nl, nh) that Writes reach from Reset, the 64-bit bit count having wrapped
\* or not, MarshalBinary's n = nl >> 3 | nh << 29 followed by UnmarshalBinary's
\* nl' = uint32(n << 3), nh' = uint32(n >> 29) gives back nl and nh; the
\* counter pair is the bit count 8 * total at 64 bits.
C15_LengthInversion32 ==
  variant \in Word32 =>
    /\ Counter(ctr) = Take(TotalBits, 8)
    /\ ctr.dec # <<>> =>
         /\ ctr.dec.err = NoError /\ ~ctr.dec.panic
         /\ ctr.dec.nl = ctr.nl
         /\ ctr.dec.nh = ctr.nh
         /\ ctr.dec.nx = PendingOf(variant, ctr.nl)

\* C15 witness: the counter of a SHA-1/224/256 context that has wrapped, with
\* a non-zero high word and pending bytes, went through the snapshot
C15_Witness ==
  /\ variant \in Word32
  /\ ctr.dec # <<>>
  /\ Wrapped(variant)
  /\ ctr.nh # Zeros(4)
  /\ PendingOf(variant, ctr.nl) > 0

\* C16 as stated: for every counter pair (nl, nh) that Writes reach from
\* Reset on SHA-384/512, n = nl >> 3 | nh << 61 followed by nl' = n << 3,
\* nh' = n >> 61 gives back nl and nh, over the whole 128-bit counter.
C16_InversionAsStated ==
  (variant \in Word64 /\ ctr.dec # <<>>) =>
    /\ ctr.dec.nl = ctr.nl
    /\ ctr.dec.nh = ctr.nh

\* C16 amended: for SHA-384/512 the trip gives back nl, and of nh its low
\* three bits: it gives back nl and nh exactly for every counter pair with
\* nh < 8, that is while fewer than 2^64 bytes have been written; the counter
\* pair is the bit count 8 * total at 128 bits.
C16_LengthInversion64 ==
  variant \in Word64 =>
    /\ Counter(ctr) = Take(TotalBits, 16)
    /\ ctr.dec # <<>> =>
         /\ ctr.dec.err = NoError /\ ~ctr.dec.panic
         /\ ctr.dec.nl = ctr.nl
         /\ ctr.dec.nh = << ctr.nh[1] % 8, 0, 0, 0, 0, 0, 0, 0 >>
         /\ Less(ctr.nh, FromNat(8, 8)) => ctr.dec.nh = ctr.nh
         /\ ctr.dec.nx = PendingOf(variant, ctr.nl)

\* C16 witness: the counter of a SHA-384/512 context whose high word is not
\* zero and below 8, with pending bytes, went through the snapshot
C16_Witness ==
  /\ variant \in Word64
  /\ ctr.dec # <<>>
  /\ ctr.nh # Zeros(8)
  /\ Less(ctr.nh, FromNat(8, 8))
  /\ ctr.dec.nh = ctr.nh
  /\ PendingOf(variant, ctr.nl) > 0

\* the pending-buffer region and the length field of snapshot b
BufferRegion(v, b) == SubSeq(b, BufferOffset(v) + 1, BufferOffset(v) + BlockSize(v))

LengthField(v, b) == Drop(b, BufferOffset(v) + BlockSize(v))

\* C17: the snapshot tracks the input stream.  After Reset and Writes of L
\* bytes in all, the snapshot's 8-byte length field is L, big-endian, and its
\* buffer region is the last L mod block size bytes written followed by
\* zeros; when L is a positive multiple of the block size the region is all
\* zeros; and the valid count UnmarshalBinary reconstructs is L mod block size.
C17_SnapshotTracksStream ==
  (call.op = "MarshalBinary" /\ Streamed) =>
    LET all == Flat(log.written)
        L == Len(all)
        bs == BlockSize(variant)
        k == L % bs
        b == call.b
    IN  /\ LengthField(variant, b) = BE(FromNat(L, 8))
        /\ BufferRegion(variant, b) = Drop(all, L - k) \o Zeros(bs - k)
        /\ (L > 0 /\ k = 0) => BufferRegion(variant, b) = Zeros(bs)
        /\ UnmarshalBinary(variant, Fresh[variant].ctx, b).d.nx = k

\* C17 witness: the snapshot of a SHA-512 adapter after exactly 128 bytes,
\* written in two Writes so that the context's buffer still holds the block
C17_Witness ==
  /\ call.op = "MarshalBinary"
  /\ Streamed
  /\ variant = "SHA512"
  /\ Len(log.written) = 2
  /\ Len(Flat(log.written)) = 128
  /\ StaleBuffer(hash.ctx)

\* C18: Sum(dst) returns dst unchanged followed by exactly Size() digest
\* bytes, the digest of the adapter's state; Size() is 20, 28, 32, 48, 64 and
\* BlockSize() is 64, 64, 64, 128, 128 for SHA-1, SHA-224, SHA-256, SHA-384,
\* SHA-512, whatever the adapter's state.
C18_SumAppends ==
  /\ Size(variant) =
       (CASE variant = "SHA1" -> 20 [] variant = "SHA224" -> 28 [] variant = "SHA256" -> 32
          [] variant = "SHA384" -> 48 [] variant = "SHA512" -> 64)
  /\ BlockSize(variant) =
       (CASE variant \in {"SHA1", "SHA224", "SHA256"} -> 64
          [] variant \in {"SHA384", "SHA512"} -> 128)
  /\ Len(hash.out) = Size(variant)
  /\ call.op = "Sum" =>
       /\ Len(call.b) = Len(call.arg) + Size(variant)
       /\ Take(call.b, Len(call.arg)) = call.arg
       /\ Drop(call.b, Len(call.arg)) = Digest(variant, hash)

\* C18 witness: Sum was called with a non-empty prefix on an adapter that
\* has absorbed more than a block and holds pending bytes
C18_Witness ==
  /\ call.op = "Sum"
  /\ call.arg # <<>>
  /\ Len(Flat(log.written)) > BlockSize(variant)
  /\ hash.ctx.nx > 0
  /\ Take(call.b, Len(call.arg)) = call.arg

\* C19: a failed UnmarshalBinary leaves the context unchanged.  A step in
\* which UnmarshalBinary returns the identifier or the size error writes no
\* field of the adapter, so MarshalBinary and Sum return after it what they
\* returned before it.
C19_FailedUnmarshalKeeps ==
  [][(call'.op = "UnmarshalBinary" /\ call'.err # NoError) =>
       /\ call'.err \in IdentifierErrors \cup SizeErrors
       /\ hash' = hash
       /\ MarshalBinary(variant, hash'.ctx).b = MarshalBinary(variant, hash.ctx).b
       /\ Digest(variant, hash') = Digest(variant, hash)]_vars

\* C19 witness: an adapter holding pending bytes after more than a block of
\* input was handed its earlier snapshot cut by one byte, and rejected it
C19_Witness ==
  /\ call.op = "UnmarshalBinary"
  /\ call.err \in SizeErrors
  /\ snap.b # <<>>
  /\ call.arg = Take(snap.b, Len(snap.b) - 1)
  /\ hash.ctx.nx > 0
  /\ hash.ctx # snap.ctx
  /\ Len(Flat(log.written)) > BlockSize(variant)

\* MarshalBinary after UnmarshalBinary of b into a fresh adapter gives b
Canonical(v, b) ==
  LET r == UnmarshalBinary(v, Fresh[v].ctx, b)
  IN  r.err = NoError /\ MarshalBinary(v, r.d).b = b

\* C20: snapshot canonicalisation.  For every byte string b that
\* UnmarshalBinary has just accepted, c = MarshalBinary of the restored
\* adapter is accepted in turn and MarshalBinary(UnmarshalBinary(c)) = c; and
\* every b that MarshalBinary returns satisfies
\* MarshalBinary(UnmarshalBinary(b)) = b byte for byte.
C20_Canonicalisation ==
  /\ (call.op = "UnmarshalBinary" /\ call.err = NoError) =>
       Canonical(variant, MarshalBinary(variant, hash.ctx).b)
  /\ call.op = "MarshalBinary" => Canonical(variant, call.b)

\* C20 witness: a byte string with a length field of more than 61 bits was
\* accepted, and the snapshot of the restored adapter differs from it
C20_Witness ==
  /\ ForgedRestore
  /\ hash.ctx.nx > 0
  /\ MarshalBinary(variant, hash.ctx).b # call.arg

\* the byte count the snapshot stores for context d: nl >> 3 | nh << 29 at 64
\* bits for the 32-bit-word variants, nl >> 3 | nh << 61 for the others
StoredCount(v, d) ==
  IF v \in Word32 THEN Or(Shr(U64(d.nl), 3), Shl(U64(d.nh), 29))
  ELSE Or(Shr(d.nl, 3), Shl(d.nh, 61))

\* C21: counter/buffer consistency.  In every state reached by Reset, Write
\* and successful UnmarshalBinary of any accepted byte string, the low three
\* bits of nl are zero and nx is the byte count derived from the counters,
\* nl >> 3 | nh << 29 (<< 61 for SHA-384/512), modulo the block size; so
\* UnmarshalBinary of the adapter's snapshot reconstructs nx.
C21_CounterBufferConsistency ==
  LET d == hash.ctx
  IN  /\ d.nl[1] % 8 = 0
      /\ d.nx = ModU32(U32(StoredCount(variant, d)), BlockSize(variant))
      /\ UnmarshalBinary(variant, Fresh[variant].ctx, MarshalBinary(variant, d).b).d.nx = d.nx

\* C21 witness: a byte string with the largest length field was restored,
\* leaving one byte less than a block pending, and a Write followed that
\* completed the block, leaving pending bytes and a high counter word that
\* is not zero
C21_Witness ==
  /\ call.op = "Write"
  /\ Len(call.arg) > 1
  /\ log.tail = 1
  /\ log.loaded \in Forged(variant, snap.b)
  /\ LengthField(variant, log.loaded) = << 255, 255, 255, 255, 255, 255, 255, 255 >>
  /\ hash.ctx.nx > 0
  /\ hash.ctx.nh # Zeros(WordBytes(variant))

====
